---------------------------- MODULE Spec2Model ----------------------------
(***************************************************************************)
(* A model of sentry-mcp: the Sentry client (src/sentry_mcp/client.py) and *)
(* the MCP tool dispatcher (src/sentry_mcp/server.py).                     *)
(*                                                                         *)
(* Conventions of the translation                                          *)
(*  - A Python dict is a TLA+ record (a function on strings); a key that   *)
(*    the dict does not carry is a key outside DOMAIN.  d.get(k, dflt) is  *)
(*    Get(d, k, dflt); d[k] on a missing key is a KeyError.                *)
(*  - A Python list is a sequence; a dict's insertion order (the order of  *)
(*    iteration of routes.items()) is kept by a sequence of its values.    *)
(*  - The outcome of a Python call is [ret |-> value] when it returns and  *)
(*    [exc |-> message] when it raises.                                    *)
(*  - Decimal numbers (milliseconds, rates, timestamps in seconds) are     *)
(*    integers counting thousandths, so 2000.004 ms is 2000004 and the     *)
(*    rate 0.25 is 250.  round(x, 2) becomes rounding to a multiple of 10. *)
(*    Timestamps, which are seconds, are held in millionths (microseconds):*)
(*    "(end - start) * 1000", seconds to milliseconds, is then the         *)
(*    difference of the two integers, read as thousandths of a ms.         *)
(***************************************************************************)
EXTENDS Integers, Sequences, FiniteSets, TLC

VARIABLES
    upstream_transactions, \* the response the upstream gives to the transactions query
    results,               \* analyze_slow_transactions' outcome per threshold_ms called
    routes,                \* its local dict "routes" when the last call returned
    upstream_event,        \* the upstream's answers to the two event-detail requests
    trace,                 \* get_transaction_trace's outcome for upstream_event
    sentry_client,         \* server.py's global client handle
    env_token,             \* whether SENTRY_TOKEN is set in the environment
    request,               \* the last tool call: name, arguments, upstream's answers
    response,              \* what call_tool gave back for it
    serving,               \* whether main() has reached server.run
    constructed,           \* how many SentryClient objects have been constructed
    gets                   \* how many GET requests the last tool call sent upstream

\* the variables of the server
tool_vars == <<sentry_client, env_token, request, response, serving, constructed, gets>>

vars == <<upstream_transactions, results, routes, upstream_event, trace, tool_vars>>

---------------------------------------------------------------------------
(* Python helpers *)

\* the empty dict {}
EmptyDict == [k \in {} |-> 0]

\* d.get(k, dflt)
Get(d, k, dflt) == IF k \in DOMAIN d THEN d[k] ELSE dflt

\* x or 0, for a number x
OrZero(x) == IF x = 0 THEN 0 ELSE x

\* round(x, 2) of a number held in thousandths: the nearest multiple of 10.
\* The sample values never end in 5, the one case where Python's float
\* rounding depends on the binary representation.
Round2(x) == 10 * ((x + 5) \div 10)

\* list.sort(key=..., reverse=True): stable, descending.  An element is placed
\* behind every element already placed whose key is greater or EQUAL, so equal
\* keys keep their original order.
RECURSIVE InsertDesc(_, _, _)
InsertDesc(x, sorted, key) ==
    IF sorted = << >> THEN << x >>
    ELSE IF Head(sorted)[key] >= x[key]
         THEN << Head(sorted) >> \o InsertDesc(x, Tail(sorted), key)
         ELSE << x >> \o sorted

\* the mutant of SortDesc: a descending sort that reverses equal keys
\* (sort ascending, then reverse the list)
RECURSIVE InsertDescUnstable(_, _, _)
InsertDescUnstable(x, sorted, key) ==
    IF sorted = << >> THEN << x >>
    ELSE IF Head(sorted)[key] > x[key]
         THEN << Head(sorted) >> \o InsertDescUnstable(x, Tail(sorted), key)
         ELSE << x >> \o sorted

RECURSIVE SortDescUnstable(_, _)
SortDescUnstable(list, key) ==
    IF list = << >> THEN << >>
    ELSE InsertDescUnstable(list[Len(list)],
                            SortDescUnstable(SubSeq(list, 1, Len(list) - 1), key), key)

RECURSIVE SortDesc(_, _)
SortDesc(list, key) ==
    IF list = << >> THEN << >>
    ELSE InsertDesc(list[Len(list)], SortDesc(SubSeq(list, 1, Len(list) - 1), key), key)

\* list[:n]: the first n items, and for a negative n all but the last -n
Take(list, n) ==
    IF n >= 0 THEN SubSeq(list, 1, IF Len(list) < n THEN Len(list) ELSE n)
    ELSE SubSeq(list, 1, IF Len(list) + n > 0 THEN Len(list) + n ELSE 0)

Ret(v) == [ret |-> v]
Raise(msg) == [exc |-> msg]
Raised(r) == "exc" \in DOMAIN r

---------------------------------------------------------------------------
(* client.py: get_transactions and analyze_slow_transactions *)

\* session.get + raise_for_status + json() of one request: the upstream's
\* answer is [ok |-> FALSE] (a RequestException after the retries) or
\* [ok |-> TRUE, json |-> body].
get_transactions(resp) ==
    IF resp.ok THEN Ret(Get(resp.json, "data", << >>))
    ELSE Raise("Failed to fetch transactions")

\* the grouping loop: routes, in insertion order
RouteOf(trans) == Get(trans, "transaction", "unknown")

RouteEntry(trans) ==
    ("transaction" :> RouteOf(trans) @@ "p95_ms" :> OrZero(Get(trans, "p95()", 0)) @@
     "p50_ms" :> OrZero(Get(trans, "p50()", 0)) @@ "tpm" :> OrZero(Get(trans, "tpm()", 0)) @@
     "failure_rate" :> OrZero(Get(trans, "failure_rate()", 0)) @@
     "http_method" :> Get(trans, "http.method", "N/A") @@
     "transaction_op" :> Get(trans, "transaction.op", "N/A"))

HasRoute(rs, route) == \E i \in 1..Len(rs) : rs[i].transaction = route

\* the mutant of AddRow: the last row of a route overwrites the recorded one
AddRowLastWins(rs, trans) ==
    IF HasRoute(rs, RouteOf(trans))
    THEN [i \in 1..Len(rs) |->
             IF rs[i].transaction = RouteOf(trans) THEN RouteEntry(trans) ELSE rs[i]]
    ELSE Append(rs, RouteEntry(trans))

\* the mutant of AddRow: every row recorded, grouped or not
AddRowAlways(rs, trans) == Append(rs, RouteEntry(trans))

\* one iteration: "if route not in routes: routes[route] = {...}"
AddRow(rs, trans) ==
    IF HasRoute(rs, RouteOf(trans)) THEN rs
    ELSE Append(rs, RouteEntry(trans))

RECURSIVE GroupRoutes(_)
GroupRoutes(transactions) ==
    IF transactions = << >> THEN << >>
    ELSE AddRow(GroupRoutes(SubSeq(transactions, 1, Len(transactions) - 1)),
                transactions[Len(transactions)])

\* the stats dict of one slow route
RouteStats(data) ==
    [route          |-> data.transaction,
     p95_ms         |-> Round2(data.p95_ms),
     p50_ms         |-> Round2(data.p50_ms),
     tpm            |-> Round2(data.tpm),
     failure_rate   |-> Round2(data.failure_rate * 100),
     http_method    |-> data.http_method,
     transaction_op |-> data.transaction_op]

\* mutants of IsSlow: ">=" for ">", and the comparison turned round
IsSlowInclusive(data, threshold_ms) == data.p95_ms >= threshold_ms
IsSlowBelow(data, threshold_ms) == data.p95_ms < threshold_ms

\* "if p95_ms > threshold_ms"
IsSlow(data, threshold_ms) == data.p95_ms > threshold_ms

RECURSIVE FilterSlow(_, _)
FilterSlow(rs, threshold_ms) ==
    IF rs = << >> THEN << >>
    ELSE (IF IsSlow(Head(rs), threshold_ms) THEN << RouteStats(Head(rs)) >> ELSE << >>)
         \o FilterSlow(Tail(rs), threshold_ms)

\* the mutant of SlowRoutes: equal p95_ms in reverse order of encounter
SlowRoutesUnstable(rs, threshold_ms) ==
    SortDescUnstable(FilterSlow(rs, threshold_ms), "p95_ms")

\* the filter loop and slow_routes.sort(key=p95_ms, reverse=True)
SlowRoutes(rs, threshold_ms) == SortDesc(FilterSlow(rs, threshold_ms), "p95_ms")

\* the mutant of NoData: an empty list answered with the counts result
NoDataNever(transactions) == FALSE

\* "if not transactions"
NoData(transactions) == transactions = << >>

analyze_slow_transactions(resp, threshold_ms, period) ==
    LET fetched == get_transactions(resp) IN
    IF Raised(fetched) THEN fetched
    ELSE LET transactions == fetched.ret
             rs           == GroupRoutes(transactions)
             slow_routes  == SlowRoutes(rs, threshold_ms)
         IN  IF NoData(transactions) THEN Ret([error |-> "No transactions found"])
             ELSE Ret([total_transactions |-> Len(transactions),
                       total_routes       |-> Len(rs),
                       slow_routes_count  |-> Len(slow_routes),
                       threshold_ms       |-> threshold_ms,
                       period             |-> period,
                       slow_routes        |-> slow_routes])

---------------------------------------------------------------------------
(* The aggregator's inputs and its specification, AggSpec *)

\* the longest transaction list the upstream returns
MaxRows == 4

\* rows as the upstream sends them (numbers in thousandths): the same route
\* with different figures, routes differing in case only, a row with no
\* "transaction" next to one literally named "unknown", p95 values on either
\* side of a threshold that round to the same 2 decimals, and a row with no
\* field at all.
SampleRows ==
    { ("transaction" :> "/a" @@ "p95()" :> 500000 @@ "p50()" :> 100000 @@ "tpm()" :> 12500 @@
       "failure_rate()" :> 10 @@ "http.method" :> "GET" @@
       "transaction.op" :> "http.server"),
      ("transaction" :> "/a" @@ "p95()" :> 9000000 @@ "p50()" :> 4000000 @@ "tpm()" :> 3004 @@
       "failure_rate()" :> 250 @@ "http.method" :> "POST" @@ "transaction.op" :> "task"),
      ("transaction" :> "/b" @@ "p95()" :> 3000000 @@ "p50()" :> 1000000 @@ "tpm()" :> 700),
      ("transaction" :> "/A" @@ "p95()" :> 2000004 @@ "p50()" :> 0 @@ "http.method" :> "GET"),
      ("transaction" :> "unknown" @@ "p95()" :> 2000000 @@ "failure_rate()" :> 1000),
      [k \in {} |-> 0],
      ("p95()" :> 3000000 @@ "http.method" :> "PUT") }

RECURSIVE SeqsUpTo(_, _)
SeqsUpTo(S, n) ==
    IF n = 0 THEN { << >> }
    ELSE LET shorter == SeqsUpTo(S, n - 1)
         IN  shorter \cup { Append(q, x) : q \in shorter, x \in S }

\* what the upstream answers to the transactions query: a failure, a body
\* without "data", or a body whose "data" is a list of rows
TransactionResponses ==
    { [ok |-> FALSE] }
    \cup { [ok |-> TRUE, json |-> EmptyDict] }
    \cup { [ok |-> TRUE, json |-> [data |-> rows]] : rows \in SeqsUpTo(SampleRows, MaxRows) }

\* threshold_ms as the tools pass it: 0 (the overview), the default 2000, 3000
Thresholds == { 0, 2000000, 3000000 }

NotCalled == [called |-> FALSE]

\* the variables of the other specifications, at rest
TraceIdle == /\ upstream_event = [org |-> [ok |-> FALSE], proj |-> [ok |-> FALSE]]
             /\ trace = NotCalled
ToolIdle == /\ sentry_client = "None"
            /\ env_token = TRUE
            /\ request = NotCalled
            /\ response = NotCalled
            /\ serving = FALSE
            /\ constructed = 0
            /\ gets = 0

AggInit ==
    /\ upstream_transactions \in TransactionResponses
    /\ results = [t \in Thresholds |-> NotCalled]
    /\ routes = << >>
    /\ TraceIdle
    /\ ToolIdle

\* one call analyze_slow_transactions(threshold_ms, period="24h")
Analyze(threshold_ms) ==
    LET fetched == get_transactions(upstream_transactions) IN
    /\ results' = [results EXCEPT
                     ![threshold_ms] = analyze_slow_transactions(upstream_transactions,
                                                                 threshold_ms, "24h")]
    /\ routes' = IF Raised(fetched) \/ NoData(fetched.ret) THEN << >>
                 ELSE GroupRoutes(fetched.ret)
    /\ UNCHANGED <<upstream_transactions, upstream_event, trace, tool_vars>>

AggNext == \E threshold_ms \in Thresholds : Analyze(threshold_ms)

AggSpec == AggInit /\ [][AggNext]_vars

---------------------------------------------------------------------------
(* Claims about analyze_slow_transactions, checked under AggSpec *)

\* the rows the upstream sent (the empty list when it sent none)
SentRows == IF upstream_transactions.ok
            THEN Get(upstream_transactions.json, "data", << >>) ELSE << >>

\* the result of the call with threshold t, when it returned the counts result
Counted(t) == /\ "ret" \in DOMAIN results[t]
              /\ "slow_routes" \in DOMAIN results[t].ret

\* the route a row belongs to, as the claims word it
RowRoute(row) == IF "transaction" \in DOMAIN row THEN row.transaction ELSE "unknown"

\* the position of the first row of a route
FirstRow(route) ==
    CHOOSE i \in 1..Len(SentRows) :
        /\ RowRoute(SentRows[i]) = route
        /\ \A j \in 1..(i - 1) : RowRoute(SentRows[j]) # route

NumberOr0(row, k) == IF k \in DOMAIN row THEN row[k] ELSE 0
TextOrNA(row, k) == IF k \in DOMAIN row THEN row[k] ELSE "N/A"

ExampleRows ==
    << ("transaction" :> "/a" @@ "p95()" :> 500000 @@ "p50()" :> 100000 @@ "tpm()" :> 12500 @@
        "failure_rate()" :> 10 @@ "http.method" :> "GET" @@
        "transaction.op" :> "http.server"),
       ("transaction" :> "/a" @@ "p95()" :> 9000000 @@ "p50()" :> 4000000 @@ "tpm()" :> 3004 @@
        "failure_rate()" :> 250 @@ "http.method" :> "POST" @@ "transaction.op" :> "task"),
       ("transaction" :> "/b" @@ "p95()" :> 3000000 @@ "p50()" :> 1000000 @@ "tpm()" :> 700) >>

\* C1: grouping is first-write-wins.  After a call that grouped, every recorded
\* route carries the p95, p50, tpm, failure_rate, http_method and transaction_op
\* of the first row of that route, whatever later rows of the route hold; and the
\* rows [/a 500, /a 9000, /b 3000] with threshold 2000 give slow_routes = [/b].
C1_FirstWriteWins ==
    /\ \A i \in 1..Len(routes) :
          LET first == SentRows[FirstRow(routes[i].transaction)] IN
          /\ routes[i].p95_ms = NumberOr0(first, "p95()")
          /\ routes[i].p50_ms = NumberOr0(first, "p50()")
          /\ routes[i].tpm = NumberOr0(first, "tpm()")
          /\ routes[i].failure_rate = NumberOr0(first, "failure_rate()")
          /\ routes[i].http_method = TextOrNA(first, "http.method")
          /\ routes[i].transaction_op = TextOrNA(first, "transaction.op")
    /\ (SentRows = ExampleRows /\ Counted(2000000)) =>
          /\ Len(results[2000000].ret.slow_routes) = 1
          /\ results[2000000].ret.slow_routes[1].route = "/b"
          /\ results[2000000].ret.slow_routes[1].p95_ms = 3000000

\* the example of C1 has been run: /a's later row (9000) is above the threshold
\* and /a is still not slow
C1_Witness ==
    /\ SentRows = ExampleRows
    /\ Counted(2000000)
    /\ Len(routes) = 2
    /\ routes[1].transaction = "/a" /\ routes[1].p95_ms = 500000

\* C2: for a non-empty list of rows, total_routes is the number of distinct
\* route values of the rows (exact match; no "transaction" counts as "unknown").
C2_TotalRoutesDistinct ==
    \A t \in Thresholds :
        (SentRows # << >> /\ results[t] # NotCalled) =>
            /\ Counted(t)
            /\ results[t].ret.total_routes
                 = Cardinality({ RowRoute(SentRows[i]) : i \in 1..Len(SentRows) })

\* four rows of three distinct routes, two of them differing in case only and
\* one row without a route merged with the route named "unknown"
C2_Witness ==
    /\ Len(SentRows) = 4
    /\ { RowRoute(SentRows[i]) : i \in 1..4 } = { "/a", "/A", "unknown" }
    /\ \E i \in 1..4 : "transaction" \notin DOMAIN SentRows[i]
    /\ \E i \in 1..4 : RowRoute(SentRows[i]) = "unknown" /\ "transaction" \in DOMAIN SentRows[i]
    /\ Counted(0) /\ results[0].ret.total_routes = 3

\* how many entries of slow_routes name a route
EntriesOf(t, route) ==
    Cardinality({ i \in 1..Len(results[t].ret.slow_routes) :
                    results[t].ret.slow_routes[i].route = route })

\* C3: slow_routes holds exactly one entry for each grouped route whose recorded
\* p95 is strictly greater than threshold_ms, none for a route whose p95 is less
\* or equal, and nothing else.
C3_SlowRoutesExact ==
    \A t \in Thresholds :
        Counted(t) =>
            /\ \A i \in 1..Len(routes) :
                  EntriesOf(t, routes[i].transaction)
                     = (IF routes[i].p95_ms > t THEN 1 ELSE 0)
            /\ \A k \in 1..Len(results[t].ret.slow_routes) :
                  \E i \in 1..Len(routes) :
                      routes[i].transaction = results[t].ret.slow_routes[k].route
            /\ results[t].ret.slow_routes_count = Len(results[t].ret.slow_routes)

\* a route recorded at exactly the threshold is left out, one recorded just
\* above it (2000.004, shown as 2000.0) is kept
C3_Witness ==
    /\ Counted(2000000)
    /\ \E i \in 1..Len(routes) :
          routes[i].p95_ms = 2000000 /\ EntriesOf(2000000, routes[i].transaction) = 0
    /\ \E i \in 1..Len(routes) :
          routes[i].p95_ms = 2000004 /\ EntriesOf(2000000, routes[i].transaction) = 1

\* C4: for the same rows and thresholds t1 <= t2, the slow_routes_count of the
\* call with t2 is at most that of the call with t1.
C4_FilterMonotonic ==
    \A t1, t2 \in Thresholds :
        (t1 <= t2 /\ Counted(t1) /\ Counted(t2)) =>
            results[t2].ret.slow_routes_count <= results[t1].ret.slow_routes_count

\* three calls on the same rows whose counts strictly decrease
C4_Witness ==
    /\ \A t \in Thresholds : Counted(t)
    /\ results[0].ret.slow_routes_count > results[2000000].ret.slow_routes_count
    /\ results[2000000].ret.slow_routes_count > results[3000000].ret.slow_routes_count
    /\ results[3000000].ret.slow_routes_count > 0

\* C5: slow_routes is sorted by p95_ms descending, and routes of equal p95_ms
\* stand in the order in which the input first showed them.
C5_SortedStable ==
    \A t \in Thresholds :
        Counted(t) =>
            LET sr == results[t].ret.slow_routes IN
            /\ \A i \in 1..(Len(sr) - 1) : sr[i].p95_ms >= sr[i + 1].p95_ms
            /\ \A i, j \in 1..Len(sr) :
                  (i < j /\ sr[i].p95_ms = sr[j].p95_ms) =>
                      FirstRow(sr[i].route) < FirstRow(sr[j].route)

\* a result of three routes, the last two of equal p95_ms, that came in
\* another order than the one they are listed in
C5_Witness ==
    /\ Counted(0)
    /\ LET sr == results[0].ret.slow_routes IN
       /\ Len(sr) >= 3
       /\ sr[1].p95_ms > sr[2].p95_ms
       /\ sr[2].p95_ms = sr[3].p95_ms
       /\ FirstRow(sr[2].route) < FirstRow(sr[1].route)

\* C7: an empty or absent list gives the no-data result, which carries neither
\* slow_routes nor counts; a non-empty list gives the counts result, also when no
\* route passes the filter (slow_routes_count = 0, slow_routes empty).
C7_NoDataDistinct ==
    \A t \in Thresholds :
        (upstream_transactions.ok /\ results[t] # NotCalled) =>
            /\ "ret" \in DOMAIN results[t]
            /\ SentRows = << >> => DOMAIN results[t].ret = { "error" }
            /\ SentRows # << >> =>
                  /\ DOMAIN results[t].ret =
                        { "total_transactions", "total_routes", "slow_routes_count",
                          "threshold_ms", "period", "slow_routes" }
                  /\ results[t].ret.total_transactions = Len(SentRows)
                  /\ (\A i \in 1..Len(routes) : routes[i].p95_ms <= t) =>
                        /\ results[t].ret.slow_routes_count = 0
                        /\ results[t].ret.slow_routes = << >>

\* the upstream sent a body without "data" and the call answered no-data
C7_Witness ==
    /\ upstream_transactions.ok
    /\ "data" \notin DOMAIN upstream_transactions.json
    /\ results[0] = Ret([error |-> "No transactions found"])

---------------------------------------------------------------------------
(* client.py: get_event_details and get_transaction_trace *)

\* the organization-level request, then the project-level one when the first
\* raised a RequestException; both failing raises
get_event_details(up) ==
    IF up.org.ok THEN Ret(up.org.json)
    ELSE IF up.proj.ok THEN Ret(up.proj.json)
    ELSE Raise("Failed to fetch event details")

\* "for entry in event.get('entries', []): if entry.get('type') == 'spans':
\*  spans = entry.get('data', []); break"
RECURSIVE FirstSpansEntry(_)
FirstSpansEntry(entries) ==
    IF entries = << >> THEN << >>
    ELSE IF Get(Head(entries), "type", "None") = "spans"
         THEN Get(Head(entries), "data", << >>)
         ELSE FirstSpansEntry(Tail(entries))

ExtractSpans(event) == FirstSpansEntry(Get(event, "entries", << >>))

\* "(end - start) * 1000 if start and end else 0"
SpanDuration(span) ==
    LET start == Get(span, "start_timestamp", 0)
        end   == Get(span, "timestamp", 0)
    IN  IF start # 0 /\ end # 0 THEN end - start ELSE 0

AnalyzedSpan(span) ==
    [op          |-> Get(span, "op", "unknown"),
     description |-> Get(span, "description", "N/A"),
     duration_ms |-> Round2(SpanDuration(span)),
     tags        |-> Get(span, "tags", EmptyDict),
     data        |-> Get(span, "data", EmptyDict)]

AnalyzedSpans(spans) == [i \in 1..Len(spans) |-> AnalyzedSpan(spans[i])]

\* the slice of "spans": analyzed_spans[:20]
TopSpansLimit == 20

\* the mutant of TopSpans: the first 20 spans encountered, then sorted
TopSpansFirstEncountered(analyzed_spans) ==
    SortDesc(Take(analyzed_spans, TopSpansLimit), "duration_ms")

\* the mutant of TopSpans: equal durations in reverse order
TopSpansUnstable(analyzed_spans) ==
    Take(SortDescUnstable(analyzed_spans, "duration_ms"), TopSpansLimit)

\* analyzed_spans.sort(key=duration_ms, reverse=True); analyzed_spans[:20]
TopSpans(analyzed_spans) == Take(SortDesc(analyzed_spans, "duration_ms"), TopSpansLimit)

\* event.get("title") or event.get("transaction") or "Unknown"
TraceTitle(event) ==
    IF Get(event, "title", "") # "" THEN event.title
    ELSE IF Get(event, "transaction", "") # "" THEN event.transaction
    ELSE "Unknown"

\* "if start_ts and end_ts: total_duration_ms = (end_ts - start_ts) * 1000"
TotalDuration(event) ==
    LET start_ts == Get(event, "startTimestamp", 0)
        end_ts   == Get(event, "endTimestamp", 0)
    IN  IF start_ts # 0 /\ end_ts # 0 THEN end_ts - start_ts ELSE 0

get_transaction_trace(up, event_id) ==
    LET fetched == get_event_details(up) IN
    IF Raised(fetched) THEN fetched
    ELSE LET event          == fetched.ret
             analyzed_spans == AnalyzedSpans(ExtractSpans(event))
         IN  IF DOMAIN event = {} THEN Ret([error |-> "Event not found"])
             ELSE Ret([event_id          |-> event_id,
                       transaction       |-> TraceTitle(event),
                       total_duration_ms |-> TotalDuration(event),
                       timestamp         |-> Get(event, "dateReceived", "None"),
                       spans_count       |-> Len(analyzed_spans),
                       spans             |-> TopSpans(analyzed_spans)])

---------------------------------------------------------------------------
(* The trace ranker's inputs and its specification, TraceSpec *)

\* the longest runs of sample spans before and after the filler spans
MaxBefore == 1
MaxAfter == 2

\* start and end of the sample spans, in microseconds: two spans whose
\* durations (5.004 and 5.001 ms) round to the same 5.0, a long one (80 ms),
\* one without start_timestamp, and one that ends before it starts
SampleTimings ==
    { ("start_timestamp" :> 1000000 @@ "timestamp" :> 1005004 @@ "op" :> "db"
          @@ "description" :> "SELECT 1"),
      ("start_timestamp" :> 1000000 @@ "timestamp" :> 1005001 @@ "op" :> "http.client"
          @@ "description" :> "GET /x" @@ "tags" :> [status |-> "ok"]),
      ("start_timestamp" :> 1000000 @@ "timestamp" :> 1080000 @@ "op" :> "db"),
      ("timestamp" :> 1080000 @@ "description" :> "no start"),
      ("start_timestamp" :> 1005000 @@ "timestamp" :> 1003000 @@ "op" :> "cache") }

\* a span of 20 ms, the filler that makes a list longer than the 20 kept
FillerTiming ==
    ("start_timestamp" :> 2000000 @@ "timestamp" :> 2020000 @@ "op" :> "filler")

FillerLengths == { 0, 18, 20 }

\* the span list of an event: each span carries its position in "data", the
\* payload the ranker passes through, so that a ranked span can be traced back
NumberSpans(timings) ==
    [i \in 1..Len(timings) |-> timings[i] @@ ("data" :> [span_no |-> i])]

SpanLists ==
    { NumberSpans(before \o [i \in 1..n |-> FillerTiming] \o after) :
        before \in SeqsUpTo(SampleTimings, MaxBefore),
        n \in FillerLengths,
        after \in SeqsUpTo(SampleTimings, MaxAfter) }

TwoSpans ==
    NumberSpans(<< ("start_timestamp" :> 1000000 @@ "timestamp" :> 1005004 @@ "op" :> "db"),
                   ("start_timestamp" :> 1000000 @@ "timestamp" :> 1080000 @@ "op" :> "db") >>)

\* an event whose spans are in an entry of type "spans"
SpanEvent(spans) ==
    [entries        |-> << [type |-> "request"], [type |-> "spans", data |-> spans] >>,
     title          |-> "GET /a",
     startTimestamp |-> 1000000,
     endTimestamp   |-> 1090000,
     dateReceived   |-> "2024-01-01T00:00:00Z"]

\* other shapes of the event record: empty, without entries, spans at the top
\* level only, two entries of type "spans", a "spans" entry without data, and
\* the duration in the trace context only
ShapeEvents ==
    { EmptyDict,
      [title |-> "", transaction |-> "/a", startTimestamp |-> 1000000],
      [entries |-> << [type |-> "request"] >>, spans |-> TwoSpans, transaction |-> "/a",
       startTimestamp |-> 1000000, endTimestamp |-> 1090000],
      [entries |-> << [type |-> "spans", data |-> TwoSpans],
                      [type |-> "spans", data |-> << >>] >>, title |-> "GET /a"],
      [entries |-> << [type |-> "spans"] >>, endTimestamp |-> 1090000],
      [entries |-> << [type |-> "spans", data |-> TwoSpans] >>,
       contexts |-> [trace |-> [duration |-> 90000]]] }

Failed == [ok |-> FALSE]
Answered(body) == [ok |-> TRUE, json |-> body]

\* the upstream's answers to the organization-level request and, asked only
\* when that one failed, to the project-level request
UpstreamEvents ==
    { [org |-> Answered(SpanEvent(spans)), proj |-> Failed] : spans \in SpanLists }
    \cup { [org |-> Answered(e), proj |-> Failed] : e \in ShapeEvents }
    \cup { [org |-> Failed, proj |-> Answered(e)] : e \in ShapeEvents }
    \cup { [org |-> Failed, proj |-> Failed] }

EventIds == { "e1", "e2" }

AggIdle == /\ upstream_transactions = Failed
           /\ results = [t \in Thresholds |-> NotCalled]
           /\ routes = << >>

TraceInit ==
    /\ upstream_event \in UpstreamEvents
    /\ trace = NotCalled
    /\ AggIdle
    /\ ToolIdle

\* one call get_transaction_trace(event_id)
GetTrace(event_id) ==
    /\ trace' = get_transaction_trace(upstream_event, event_id)
    /\ UNCHANGED <<upstream_transactions, results, routes, upstream_event, tool_vars>>

TraceNext == \E event_id \in EventIds : GetTrace(event_id)

TraceSpec == TraceInit /\ [][TraceNext]_vars

---------------------------------------------------------------------------
(* Claims about get_transaction_trace, checked under TraceSpec *)

\* the call returned a trace analysis
Traced == "ret" \in DOMAIN trace /\ "spans" \in DOMAIN trace.ret

\* the event the client was given, and the spans of its first "spans" entry
GivenEvent == IF upstream_event.org.ok THEN upstream_event.org.json
              ELSE upstream_event.proj.json

GivenSpans ==
    LET entries == IF "entries" \in DOMAIN GivenEvent THEN GivenEvent.entries ELSE << >>
        holders == { i \in 1..Len(entries) :
                       "type" \in DOMAIN entries[i] /\ entries[i].type = "spans" }
        first   == CHOOSE i \in holders : \A j \in holders : i <= j
    IN  IF holders = {} \/ "data" \notin DOMAIN entries[first] THEN << >>
        ELSE entries[first].data

Min(a, b) == IF a < b THEN a ELSE b

\* C6: spans holds min(20, total_spans) spans, each the analysis of a span of
\* the event, no span twice; they are in descending order of duration_ms with
\* equal durations in their original order; and every span left out is no longer
\* than the last one kept (and stood behind it in the event when equal): the
\* list is the 20 slowest, not the first 20 encountered.
C6_TopSpansRanked ==
    Traced =>
        LET given == GivenSpans
            spans == trace.ret.spans
            pos(i) == spans[i].data.span_no
            kept == { pos(i) : i \in 1..Len(spans) }
        IN  /\ trace.ret.spans_count = Len(given)
            /\ Len(spans) = Min(20, Len(given))
            /\ \A i \in 1..Len(spans) :
                  /\ pos(i) \in 1..Len(given)
                  /\ spans[i] = AnalyzedSpan(given[pos(i)])
            /\ Cardinality(kept) = Len(spans)
            /\ \A i \in 1..(Len(spans) - 1) :
                  /\ spans[i].duration_ms >= spans[i + 1].duration_ms
                  /\ spans[i].duration_ms = spans[i + 1].duration_ms => pos(i) < pos(i + 1)
            /\ \A p \in (1..Len(given)) \ kept :
                  LET d == AnalyzedSpan(given[p]).duration_ms
                      last == spans[Len(spans)]
                  IN  \/ d < last.duration_ms
                      \/ d = last.duration_ms /\ p > last.data.span_no

\* an event of 21 spans whose slowest span is the last one: it is listed
\* first; the last place goes to the first of two spans of equal (rounded)
\* duration, and the second of them, met later, is left out
C6_Witness ==
    /\ Traced
    /\ Len(GivenSpans) = 21
    /\ Len(trace.ret.spans) = 20
    /\ trace.ret.spans[1].data.span_no = 21
    /\ trace.ret.spans[1].duration_ms = 80000
    /\ trace.ret.spans[20].data.span_no = 1
    /\ trace.ret.spans[20].duration_ms = 5000
    /\ AnalyzedSpan(GivenSpans[20]).duration_ms = 5000
    /\ SpanDuration(GivenSpans[20]) # SpanDuration(GivenSpans[1])

---------------------------------------------------------------------------
(* server.py: get_client and call_tool *)

\* SentryClient(): "self.token = token or os.getenv('SENTRY_TOKEN')" and
\* "if not self.token: raise ValueError"
SentryClientInit(token_set) ==
    IF token_set THEN Ret("client") ELSE Raise("SENTRY_TOKEN is required")

\* the mutant of get_client: a client constructed at every call
get_client_always(handle, token_set) ==
    LET made == SentryClientInit(token_set)
    IN  [out |-> made, handle |-> IF Raised(made) THEN handle ELSE made.ret,
         made |-> ~Raised(made)]

\* get_client(): the outcome of the call, the global it leaves behind and
\* whether it constructed a client
get_client(handle, token_set) ==
    IF handle # "None" THEN [out |-> Ret(handle), handle |-> handle, made |-> FALSE]
    ELSE LET made == SentryClientInit(token_set)
         IN  [out |-> made, handle |-> IF Raised(made) THEN "None" ELSE made.ret,
              made |-> ~Raised(made)]

\* TextContent(type="text", text=...).  A formatted text is held as a record:
\* "head" is the constant text it starts with, the other fields are the values
\* formatted into it.
TextContent(text) == [type |-> "text", text |-> text]

\* f"❌ Error: {...}"
ErrorText(detail) == [head |-> "Error: ", detail |-> detail]

\* "arguments" when the caller passed None instead of a dict
NoneArgs == [None |-> TRUE]

\* arguments.get(...) on None
NoGet == Raise("'NoneType' object has no attribute 'get'")

\* the first of the keys, in the order the handler reads them, that the dict
\* does not carry ("" when it carries them all); str(KeyError(k)) is k in quotes
RECURSIVE FirstMissing(_, _)
FirstMissing(d, keys) ==
    IF keys = << >> THEN ""
    ELSE IF Head(keys) \notin DOMAIN d THEN Head(keys)
         ELSE FirstMissing(d, Tail(keys))

KeyError(key) ==
    CASE key = "total_transactions" -> Raise("'total_transactions'")
      [] key = "total_routes"       -> Raise("'total_routes'")
      [] key = "slow_routes_count"  -> Raise("'slow_routes_count'")
      [] key = "slow_routes"        -> Raise("'slow_routes'")
      [] key = "route"              -> Raise("'route'")
      [] key = "period"             -> Raise("'period'")
      [] key = "threshold_ms"       -> Raise("'threshold_ms'")
      [] key = "total_events"       -> Raise("'total_events'")
      [] key = "slow_events_count"  -> Raise("'slow_events_count'")
      [] key = "traces_analyzed"    -> Raise("'traces_analyzed'")
      [] key = "traces"             -> Raise("'traces'")
      [] key = "event_id"           -> Raise("'event_id'")
      [] key = "total_duration_ms"  -> Raise("'total_duration_ms'")
      [] key = "timestamp"          -> Raise("'timestamp'")
      [] key = "spans_count"        -> Raise("'spans_count'")
      [] key = "spans"              -> Raise("'spans'")
      [] OTHER                      -> Raise("KeyError")

\* name == "get_slow_transactions": the text formatted from the result
SlowTransactionsText(result, threshold, period) ==
    LET missing == FirstMissing(result, << "total_transactions", "total_routes",
                                           "slow_routes_count", "slow_routes" >>)
    IN  IF missing # "" THEN KeyError(missing)
        ELSE Ret(<< TextContent(
                 [head               |-> "Slow Transactions Analysis",
                  period             |-> period,
                  total_transactions |-> result.total_transactions,
                  total_routes       |-> result.total_routes,
                  threshold          |-> threshold,
                  slow_routes_count  |-> result.slow_routes_count,
                  no_slow_routes     |-> (result.slow_routes = << >>),
                  routes             |-> Take(result.slow_routes, 10)]) >>)

get_slow_transactions(arguments, up) ==
    IF arguments = NoneArgs THEN NoGet
    ELSE LET threshold == Get(arguments, "threshold_ms", 2000000)
             period    == Get(arguments, "period", "24h")
             called    == analyze_slow_transactions(up.transactions, threshold, period)
         IN  IF Raised(called) THEN called
             ELSE SlowTransactionsText(called.ret, threshold, period)

\* name == "get_performance_overview"
PerformanceOverviewText(result, period) ==
    LET missing == FirstMissing(result, << "total_transactions", "total_routes",
                                           "slow_routes" >>)
    IN  IF missing # "" THEN KeyError(missing)
        ELSE Ret(<< TextContent(
                 [head               |-> "Performance Overview",
                  period             |-> period,
                  total_transactions |-> result.total_transactions,
                  total_routes       |-> result.total_routes,
                  routes             |-> result.slow_routes]) >>)

get_performance_overview(arguments, up) ==
    IF arguments = NoneArgs THEN NoGet
    ELSE LET period == Get(arguments, "period", "24h")
             called == analyze_slow_transactions(up.transactions, 0, period)
         IN  IF Raised(called) THEN called
             ELSE PerformanceOverviewText(called.ret, period)

\* "for r in result['slow_routes']: if r['route'] == route: route_data = r; break"
RECURSIVE FindRoute(_, _)
FindRoute(slow_routes, route) ==
    IF slow_routes = << >> THEN << >>
    ELSE IF Head(slow_routes).route = route THEN << Head(slow_routes) >>
         ELSE FindRoute(Tail(slow_routes), route)

\* name == "analyze_route_performance"
RoutePerformanceText(result, route, period) ==
    IF "slow_routes" \notin DOMAIN result THEN KeyError("slow_routes")
    ELSE LET found == FindRoute(result.slow_routes, route)
         IN  IF found = << >>
             THEN Ret(<< TextContent([head |-> "Route not found in period",
                                      route |-> route, period |-> period]) >>)
             ELSE Ret(<< TextContent([head |-> "Route Performance Analysis",
                                      route |-> route, period |-> period,
                                      route_data |-> found[1]]) >>)

analyze_route_performance(arguments, up) ==
    IF arguments = NoneArgs THEN NoGet
    ELSE LET route  == Get(arguments, "route", "")
             period == Get(arguments, "period", "24h")
             called == analyze_slow_transactions(up.transactions, 0, period)
         IN  IF route = "" THEN Ret(<< TextContent(ErrorText("route is required")) >>)
             ELSE IF Raised(called) THEN called
             ELSE RoutePerformanceText(called.ret, route, period)

\* the spans of a trace as the tools print them: span['description'] is
\* indexed, so a span without it would be a KeyError; the ranker always sets it
TraceText(head, result) ==
    [head              |-> head,
     event_id          |-> result.event_id,
     transaction       |-> result.transaction,
     total_duration_ms |-> result.total_duration_ms,
     timestamp         |-> result.timestamp,
     spans_count       |-> result.spans_count,
     spans             |-> Take(result.spans, 10)]

\* name == "analyze_transaction_trace"
analyze_transaction_trace(arguments, up) ==
    IF arguments = NoneArgs THEN NoGet
    ELSE LET event_id == Get(arguments, "event_id", "")
         IN  IF event_id = ""
             THEN Ret(<< TextContent(ErrorText("event_id is required")) >>)
             ELSE LET called == get_transaction_trace(up.event_of[event_id], event_id)
                      missing == FirstMissing(called.ret,
                                    << "transaction", "total_duration_ms", "timestamp",
                                       "spans_count", "spans" >>)
                  IN  IF Raised(called) THEN called
                      ELSE IF "error" \in DOMAIN called.ret
                      THEN Ret(<< TextContent(ErrorText(called.ret.error)) >>)
                      ELSE IF missing # "" THEN KeyError(missing)
                      ELSE Ret(<< TextContent(
                               TraceText("Transaction Trace Analysis", called.ret)) >>)

---------------------------------------------------------------------------
(* client.py: get_transaction_events and get_route_detailed_traces *)

\* a failed request is logged and answered with the empty list
get_transaction_events(resp) ==
    IF resp.ok THEN Get(resp.json, "data", << >>) ELSE << >>

\* "(e.get('transaction.duration') or 0) * 1000 >= threshold_ms"
IsSlowEvent(e, threshold_ms) ==
    OrZero(Get(e, "transaction.duration", 0)) * 1000 >= threshold_ms

RECURSIVE SlowEvents(_, _)
SlowEvents(events, threshold_ms) ==
    IF events = << >> THEN << >>
    ELSE (IF IsSlowEvent(Head(events), threshold_ms) THEN << Head(events) >> ELSE << >>)
         \o SlowEvents(Tail(events), threshold_ms)

\* the loop "for event in slow_events[:limit]": an event without id is
\* skipped, and so is one whose get_transaction_trace raises; whatever the call
\* returns is appended
RECURSIVE CollectTraces(_, _)
CollectTraces(events, event_of) ==
    IF events = << >> THEN << >>
    ELSE LET event_id == Get(Head(events), "id", "")
             rest     == CollectTraces(Tail(events), event_of)
         IN  IF event_id = "" THEN rest
             ELSE LET called == get_transaction_trace(event_of[event_id], event_id)
                  IN  IF Raised(called) THEN rest ELSE << called.ret >> \o rest

get_route_detailed_traces(up, route, period, threshold_ms, limit) ==
    LET events      == get_transaction_events(up.events)
        slow_events == SlowEvents(events, threshold_ms)
        traces      == CollectTraces(Take(slow_events, limit), up.event_of)
    IN  IF events = << >> THEN Ret([error |-> "No events found for route"])
        ELSE IF slow_events = << >>
        THEN Ret([route        |-> route,
                  message      |-> "No events slower than threshold_ms found",
                  total_events |-> Len(events),
                  traces       |-> << >>])
        ELSE Ret([route             |-> route,
                  period            |-> period,
                  threshold_ms      |-> threshold_ms,
                  total_events      |-> Len(events),
                  slow_events_count |-> Len(slow_events),
                  traces_analyzed   |-> Len(traces),
                  traces            |-> traces])

\* the first key a trace of the batch lacks when the tool prints it
RECURSIVE FirstBadTrace(_)
FirstBadTrace(traces) ==
    IF traces = << >> THEN ""
    ELSE LET missing == FirstMissing(Head(traces),
                           << "event_id", "total_duration_ms", "timestamp",
                              "spans_count", "spans" >>)
         IN  IF missing # "" THEN missing ELSE FirstBadTrace(Tail(traces))

\* name == "get_route_detailed_traces": the text formatted from the result
RouteTracesText(result) ==
    LET missing == FirstMissing(result, << "route", "period", "threshold_ms", "total_events",
                                           "slow_events_count", "traces_analyzed", "traces" >>)
    IN  IF "error" \in DOMAIN result THEN Ret(<< TextContent(ErrorText(result.error)) >>)
        ELSE IF missing # "" THEN KeyError(missing)
        ELSE IF result.traces = << >>
        THEN Ret(<< TextContent(
                 [head    |-> "Detailed Trace Analysis for Route",
                  summary |-> [k \in DOMAIN result \ { "traces" } |-> result[k]],
                  message |-> Get(result, "message", "No slow traces found.")]) >>)
        ELSE IF FirstBadTrace(result.traces) # "" THEN KeyError(FirstBadTrace(result.traces))
        ELSE Ret(<< TextContent(
                 [head    |-> "Detailed Trace Analysis for Route",
                  summary |-> [k \in DOMAIN result \ { "traces" } |-> result[k]],
                  traces  |-> [i \in 1..Len(result.traces) |->
                                  TraceText("Trace", result.traces[i])]]) >>)

route_detailed_traces_tool(arguments, up) ==
    IF arguments = NoneArgs THEN NoGet
    ELSE LET route        == Get(arguments, "route", "")
             period       == Get(arguments, "period", "24h")
             threshold_ms == Get(arguments, "threshold_ms", 2000000)
             limit        == Get(arguments, "limit", 5)
         IN  IF route = "" THEN Ret(<< TextContent(ErrorText("route is required")) >>)
             ELSE LET called == get_route_detailed_traces(up, route, period,
                                                          threshold_ms, limit)
                  IN  IF Raised(called) THEN called ELSE RouteTracesText(called.ret)

---------------------------------------------------------------------------
(* client.py: get_issues and get_issue_details; their tools *)

get_issues(resp) ==
    IF resp.ok THEN Ret(resp.json) ELSE Raise("Failed to fetch issues")

\* name == "get_recent_issues"
get_recent_issues(arguments, up) ==
    IF arguments = NoneArgs THEN NoGet
    ELSE LET period == Get(arguments, "period", "24h")
             query  == Get(arguments, "query", "is:unresolved issue.priority:[high, medium]")
             called == get_issues(up.issues)
         IN  IF Raised(called) THEN called
             ELSE IF called.ret = << >>
             THEN Ret(<< TextContent([head |-> "No issues found!"]) >>)
             ELSE Ret(<< TextContent([head   |-> "Recent Issues",
                                      period |-> period,
                                      query  |-> query,
                                      total  |-> Len(called.ret),
                                      issues |-> Take(called.ret, 20)]) >>)

\* x.get("id") or x.get("eventID"), "" when neither is there
IdOf(x) == IF Get(x, "id", "") # "" THEN x.id ELSE Get(x, "eventID", "")

\* Methods 1 to 3: the event id the issue record itself names.  A JSON value
\* that may be a string or an object is held as [str |-> s] or [dict |-> d].
EventIdInIssue(issue_data) ==
    LET lastEvent   == Get(issue_data, "lastEvent", EmptyDict)
        latestEvent == Get(issue_data, "latestEvent", EmptyDict)
        from_last   == IF "str" \in DOMAIN lastEvent THEN lastEvent.str
                       ELSE IF "dict" \in DOMAIN lastEvent THEN IdOf(lastEvent.dict)
                       ELSE ""
    IN  IF from_last # "" THEN from_last
        ELSE IF "str" \in DOMAIN latestEvent THEN latestEvent.str
        ELSE IF "dict" \in DOMAIN latestEvent THEN IdOf(latestEvent.dict)
        ELSE ""

\* Method 4: the events endpoint, asked without raise_for_status.  Its answer
\* is [raised |-> TRUE] or [raised |-> FALSE, status |-> code, json |-> list].
EventIdFromEvents(events_response) ==
    IF events_response.status = 200 /\ events_response.json # << >>
    THEN IdOf(events_response.json[1]) ELSE ""

\* the latest event's details: the organization-level request, then the
\* project-level one; when both fail the issue record is left as it is
WithLatestEvent(issue_data, latest_event_id, event_of) ==
    IF latest_event_id = "" THEN issue_data
    ELSE LET fetched == get_event_details(event_of[latest_event_id])
         IN  IF Raised(fetched) THEN issue_data
             ELSE ("latestEventDetails" :> fetched.ret) @@ issue_data

\* the handler of the outer "except RequestException": the project-level issue
IssueFallback(up) ==
    IF up.issue_proj.ok THEN Ret(up.issue_proj.json)
    ELSE Raise("Failed to fetch issue details")

get_issue_details(up, issue_id) ==
    IF ~up.issue_org.ok THEN IssueFallback(up)
    ELSE LET issue_data == up.issue_org.json
             in_issue   == EventIdInIssue(issue_data)
         IN  IF in_issue # "" THEN Ret(WithLatestEvent(issue_data, in_issue, up.event_of))
             ELSE IF up.issue_events.raised THEN IssueFallback(up)
             ELSE Ret(WithLatestEvent(issue_data, EventIdFromEvents(up.issue_events),
                                      up.event_of))

\* name == "get_issue_details": the inner try returns the formatted issue, its
\* "except Exception" the error text
issue_details_tool(arguments, up) ==
    IF arguments = NoneArgs THEN NoGet
    ELSE LET issue_id == Get(arguments, "issue_id", "")
             called   == get_issue_details(up, issue_id)
         IN  IF issue_id = ""
             THEN Ret(<< TextContent(ErrorText("issue_id is required")) >>)
             ELSE IF Raised(called)
             THEN Ret(<< TextContent([head   |-> "Error fetching issue details: ",
                                      detail |-> called.exc]) >>)
             ELSE Ret(<< TextContent([head  |-> "Issue Details",
                                      issue |-> called.ret,
                                      has_latest_event |->
                                          ("latestEventDetails" \in DOMAIN called.ret)]) >>)

---------------------------------------------------------------------------
(* server.py: call_tool *)

ToolNames == { "get_slow_transactions", "analyze_transaction_trace",
               "get_performance_overview", "get_recent_issues", "get_issue_details",
               "analyze_route_performance", "get_route_detailed_traces" }

\* the if/elif chain on name
Dispatch(name, arguments, up) ==
    CASE name = "get_slow_transactions"     -> get_slow_transactions(arguments, up)
      [] name = "analyze_transaction_trace" -> analyze_transaction_trace(arguments, up)
      [] name = "get_performance_overview"  -> get_performance_overview(arguments, up)
      [] name = "get_recent_issues"         -> get_recent_issues(arguments, up)
      [] name = "get_issue_details"         -> issue_details_tool(arguments, up)
      [] name = "analyze_route_performance" -> analyze_route_performance(arguments, up)
      [] name = "get_route_detailed_traces" -> route_detailed_traces_tool(arguments, up)
      [] OTHER -> Ret(<< TextContent([head |-> "Unknown tool: ", detail |-> name]) >>)

\* The GET requests a call sends upstream, counted along the paths the
\* operators above take.  get_event_details: the organization-level request
\* and, when it raised, the project-level one.
GetsEventDetails(up) == IF up.org.ok THEN 1 ELSE 2

\* the loop of get_route_detailed_traces: one get_transaction_trace for each
\* event that has an id
RECURSIVE GetsCollectTraces(_, _)
GetsCollectTraces(events, event_of) ==
    IF events = << >> THEN 0
    ELSE LET event_id == Get(Head(events), "id", "")
         IN  (IF event_id = "" THEN 0 ELSE GetsEventDetails(event_of[event_id]))
             + GetsCollectTraces(Tail(events), event_of)

\* the mutant of GetsRouteDetailedTraces: the loop runs over every slow event
GetsRouteDetailedTracesUnsliced(up, threshold_ms, limit) ==
    1 + GetsCollectTraces(SlowEvents(get_transaction_events(up.events), threshold_ms),
                          up.event_of)

\* get_route_detailed_traces: the events query, then the loop over
\* slow_events[:limit]
GetsRouteDetailedTraces(up, threshold_ms, limit) ==
    1 + GetsCollectTraces(Take(SlowEvents(get_transaction_events(up.events), threshold_ms),
                               limit),
                          up.event_of)

\* get_issue_details: the issue (and its project-level fallback), the events
\* list when the issue names no event, the two requests for the event's details
GetsIssueDetails(up) ==
    IF ~up.issue_org.ok THEN 2
    ELSE LET in_issue == EventIdInIssue(up.issue_org.json)
             listed   == EventIdFromEvents(up.issue_events)
         IN  IF in_issue # "" THEN 1 + GetsEventDetails(up.event_of[in_issue])
             ELSE IF up.issue_events.raised THEN 3
             ELSE IF listed = "" THEN 2
             ELSE 2 + GetsEventDetails(up.event_of[listed])

\* the if/elif chain on name: arguments.get on None and a missing required
\* argument return before any request
DispatchGets(name, arguments, up) ==
    IF arguments = NoneArgs THEN 0
    ELSE CASE name \in { "get_slow_transactions", "get_performance_overview",
                         "get_recent_issues" } -> 1
           [] name = "analyze_route_performance" ->
                  IF Get(arguments, "route", "") = "" THEN 0 ELSE 1
           [] name = "analyze_transaction_trace" ->
                  IF Get(arguments, "event_id", "") = "" THEN 0
                  ELSE GetsEventDetails(up.event_of[arguments.event_id])
           [] name = "get_issue_details" ->
                  IF Get(arguments, "issue_id", "") = "" THEN 0 ELSE GetsIssueDetails(up)
           [] name = "get_route_detailed_traces" ->
                  IF Get(arguments, "route", "") = "" THEN 0
                  ELSE GetsRouteDetailedTraces(up, Get(arguments, "threshold_ms", 2000000),
                                               Get(arguments, "limit", 5))
           [] OTHER -> 0

\* the mutant of Caught: no handler, the exception leaves call_tool
NotCaught(outcome) == outcome

\* "except Exception as e: return [TextContent(type='text', text=f'Error: {str(e)}')]"
Caught(outcome) ==
    IF Raised(outcome) THEN Ret(<< TextContent(ErrorText(outcome.exc)) >>) ELSE outcome

\* call_tool(name, arguments): the outcome of the call and the client handle
\* it leaves in the global
call_tool(name, arguments, up, handle, token_set) ==
    LET got == get_client(handle, token_set)
    IN  [out    |-> Caught(IF Raised(got.out) THEN got.out
                           ELSE Dispatch(name, arguments, up)),
         handle |-> got.handle,
         made   |-> got.made,
         gets   |-> IF Raised(got.out) THEN 0 ELSE DispatchGets(name, arguments, up)]

---------------------------------------------------------------------------
(* The tools' inputs and the specification of the server, Spec *)

\* the longest transaction list and the longest event list a tool call is given
MaxToolRows == 2
MaxEvents == 2

\* calls are taken while fewer clients than this have been constructed
MaxConstructed == 2

\* what the upstream holds for each event id: its answers to the
\* organization-level and the project-level request.  e1 is found, e2 fails on
\* both, e3 is answered with an empty record and e4 is found by the
\* project-level request only.
FoundEvent == [org |-> Answered(SpanEvent(TwoSpans)), proj |-> Failed]
LostEvent == [org |-> Failed, proj |-> Failed]
EventWorld ==
    [e1 |-> FoundEvent,
     e2 |-> LostEvent,
     e3 |-> [org |-> Answered(EmptyDict), proj |-> Failed],
     e4 |-> [org |-> Failed, proj |-> Answered(SpanEvent(TwoSpans))]]

\* rows of the events query; "transaction.duration" as the upstream sends it
SampleEvents ==
    { ("id" :> "e1" @@ "transaction.duration" :> 2100000),
      ("id" :> "e2" @@ "transaction.duration" :> 2100000),
      ("id" :> "e3" @@ "transaction.duration" :> 2100000),
      ("id" :> "e4" @@ "transaction.duration" :> 5000),
      ("id" :> "e1" @@ "transaction.duration" :> 1000),
      ("transaction.duration" :> 2100000 @@ "transaction" :> "/a") }

EventsResponses ==
    { Failed, Answered(EmptyDict) }
    \cup { Answered([data |-> rows]) : rows \in SeqsUpTo(SampleEvents, MaxEvents) }

ToolTransactionResponses ==
    { Failed, Answered(EmptyDict) }
    \cup { Answered([data |-> rows]) : rows \in SeqsUpTo(SampleRows, MaxToolRows) }

SampleIssue == [id |-> "42", title |-> "ValueError", status |-> "unresolved"]

\* the same issue as the project-level endpoint may send it
ProjectIssue == [id |-> "42", title |-> "ValueError", project |-> "project-slug"]

IssuesResponses ==
    { Failed, Answered(<< >>), Answered(<< SampleIssue >>),
      Answered(<< SampleIssue, [id |-> "43"] >>) }

\* the issue record, naming its latest event in each of the ways the client
\* looks for, or not at all
IssueRecords ==
    { SampleIssue,
      [id |-> "42", lastEvent |-> [str |-> "e1"]],
      [id |-> "42", lastEvent |-> [dict |-> [id |-> "e2"]]],
      [id |-> "42", lastEvent |-> [dict |-> [title |-> "x"]],
                    latestEvent |-> [dict |-> [eventID |-> "e4"]]],
      [id |-> "42", latestEvent |-> [str |-> "e3"]] }

IssueEventsResponses ==
    { [raised |-> TRUE],
      [raised |-> FALSE, status |-> 404, json |-> << >>],
      [raised |-> FALSE, status |-> 200, json |-> << >>],
      [raised |-> FALSE, status |-> 200, json |-> << [eventID |-> "e1"] >>],
      [raised |-> FALSE, status |-> 200, json |-> << [id |-> "e2"], [id |-> "e1"] >>] }

\* the upstream's answers to the requests of one tool call
UpIdle ==
    [transactions |-> Failed,
     events       |-> Failed,
     event_of     |-> EventWorld,
     issues       |-> Failed,
     issue_org    |-> Failed,
     issue_events |-> [raised |-> TRUE],
     issue_proj   |-> Failed]

\* every dict that gives each key of "optional" one of its values or leaves it out
RECURSIVE Dicts(_)
Dicts(optional) ==
    IF DOMAIN optional = {} THEN { EmptyDict }
    ELSE LET k    == CHOOSE key \in DOMAIN optional : TRUE
             rest == Dicts([key \in DOMAIN optional \ { k } |-> optional[key]])
         IN  rest \cup { (k :> v) @@ d : v \in optional[k], d \in rest }

Init ==
    /\ sentry_client = "None"
    /\ env_token \in BOOLEAN
    /\ request = NotCalled
    /\ response = NotCalled
    /\ serving = FALSE
    /\ constructed = 0
    /\ gets = 0
    /\ AggIdle
    /\ TraceIdle

\* main(): load_dotenv() and server.run(...).  Neither the token nor the
\* client is looked at; from here on tool calls are accepted.
main ==
    /\ ~serving
    /\ serving' = TRUE
    /\ UNCHANGED <<upstream_transactions, results, routes, upstream_event, trace,
                   sentry_client, env_token, request, response, constructed, gets>>

\* what no tool call changes
untouched == <<upstream_transactions, results, routes, upstream_event, trace, env_token,
               serving>>

\* one call of call_tool, from the request to the returned list.  The server
\* handles one call at a time: a call starts when none is in hand.
Call(name, arguments, up) ==
    LET done == call_tool(name, arguments, up, sentry_client, env_token)
    IN  /\ serving
        /\ request = NotCalled
        /\ request' = [name |-> name, arguments |-> arguments, up |-> up]
        /\ response' = done.out
        /\ sentry_client' = done.handle
        /\ constructed < MaxConstructed
        /\ constructed' = constructed + (IF done.made THEN 1 ELSE 0)
        /\ gets' = done.gets
        /\ UNCHANGED untouched

\* the calls, tool by tool, with the arguments and the upstream's answers
CallSlowTransactions ==
    \E arguments \in { NoneArgs } \cup Dicts([threshold_ms |-> { 0, 3000000 },
                                              period |-> { "7d" }]),
       transactions \in ToolTransactionResponses :
        Call("get_slow_transactions", arguments,
             [UpIdle EXCEPT !.transactions = transactions])

CallPerformanceOverview ==
    \E arguments \in { NoneArgs } \cup Dicts([period |-> { "7d" }]),
       transactions \in ToolTransactionResponses :
        Call("get_performance_overview", arguments,
             [UpIdle EXCEPT !.transactions = transactions])

CallRoutePerformance ==
    \E arguments \in { NoneArgs } \cup Dicts([route |-> { "/a", "unknown", "/none" },
                                              period |-> { "7d" }]),
       transactions \in ToolTransactionResponses :
        Call("analyze_route_performance", arguments,
             [UpIdle EXCEPT !.transactions = transactions])

CallTransactionTrace ==
    \E arguments \in { NoneArgs } \cup Dicts([event_id |-> { "e1", "e2", "e3", "e4" }]) :
        Call("analyze_transaction_trace", arguments, UpIdle)

CallRouteDetailedTraces ==
    \E arguments \in { NoneArgs } \cup Dicts([route |-> { "/a" }, threshold_ms |-> { 0 },
                                              limit |-> { -1, 1, 2 }]),
       events \in EventsResponses :
        Call("get_route_detailed_traces", arguments, [UpIdle EXCEPT !.events = events])

CallRecentIssues ==
    \E arguments \in { NoneArgs } \cup Dicts([period |-> { "7d" }, limit |-> { 1 },
                                              query |-> { "is:unresolved" }]),
       issues \in IssuesResponses :
        Call("get_recent_issues", arguments, [UpIdle EXCEPT !.issues = issues])

CallIssueDetails ==
    \E arguments \in { NoneArgs } \cup Dicts([issue_id |-> { "42" }]),
       issue_org \in { Failed } \cup { Answered(i) : i \in IssueRecords },
       issue_events \in IssueEventsResponses,
       issue_proj \in { Failed, Answered(SampleIssue), Answered(ProjectIssue) } :
        Call("get_issue_details", arguments,
             [UpIdle EXCEPT !.issue_org = issue_org, !.issue_events = issue_events,
                            !.issue_proj = issue_proj])

CallUnknownTool ==
    \E name \in { "get_issues", "" }, arguments \in { NoneArgs, EmptyDict } :
        Call(name, arguments, UpIdle)

\* the returned list goes to the protocol layer and the server waits for the
\* next call; the client handle stays
Deliver ==
    /\ request # NotCalled
    /\ request' = NotCalled
    /\ response' = NotCalled
    /\ gets' = 0
    /\ UNCHANGED <<sentry_client, constructed, untouched>>

Next ==
    \/ main
    \/ Deliver
    \/ CallSlowTransactions
    \/ CallPerformanceOverview
    \/ CallRoutePerformance
    \/ CallTransactionTrace
    \/ CallRouteDetailedTraces
    \/ CallRecentIssues
    \/ CallIssueDetails
    \/ CallUnknownTool

Spec == Init /\ [][Next]_vars

---------------------------------------------------------------------------
(* The claims about call_tool, stated on Spec *)

\* a call is in hand: request holds what was asked, response what was returned
InHand == request # NotCalled

\* the call in hand went past get_client and past the reading of its arguments
Dispatched == /\ InHand
              /\ env_token
              /\ request.arguments # NoneArgs

\* the text of the one item call_tool returned
AnswerText == response.ret[1].text

\* C8: whatever the tool name, the arguments and the outcome of the client
\* (a result, an error marker, a raised exception, a client that could not be
\* constructed), call_tool returns a list of exactly one text item and no
\* exception leaves it.
C8_AlwaysOneText ==
    InHand => /\ DOMAIN response = { "ret" }
              /\ Len(response.ret) = 1
              /\ response.ret[1].type = "text"

\* the client could not be constructed, and a request failed under a known
\* tool: both came back as one error text
C8_Witness ==
    /\ InHand
    /\ \/ /\ ~env_token
          /\ request.name \in ToolNames
          /\ response = Ret(<< TextContent(ErrorText("SENTRY_TOKEN is required")) >>)
       \/ /\ Dispatched
          /\ request.name = "get_slow_transactions"
          /\ ~request.up.transactions.ok
          /\ response = Ret(<< TextContent(ErrorText("Failed to fetch transactions")) >>)

\* the tools built on analyze_slow_transactions
AggregatorTools == { "get_slow_transactions", "get_performance_overview",
                     "analyze_route_performance" }

\* the call in hand is one of an aggregator tool that reached the client, and
\* the upstream answered it with no transactions
NoTransactionsCall ==
    /\ Dispatched
    /\ request.name \in AggregatorTools
    /\ request.name = "analyze_route_performance" => "route" \in DOMAIN request.arguments
    /\ request.up.transactions.ok
    /\ get_transactions(request.up.transactions) = Ret(<< >>)

\* C9: when the upstream returns no transactions, the aggregator tools answer
\* that no transactions were found, and not with the error of a failed lookup
\* of a result field.
C9_NoTransactionsAnswered ==
    NoTransactionsCall => /\ "detail" \in DOMAIN AnswerText
                          /\ AnswerText.detail = "No transactions found"

\* what get_route_detailed_traces returned to the call in hand
BridgeResult ==
    get_route_detailed_traces(request.up,
                              request.arguments.route,
                              Get(request.arguments, "period", "24h"),
                              Get(request.arguments, "threshold_ms", 2000000),
                              Get(request.arguments, "limit", 5)).ret

\* the call in hand is one of the bridge's tool that reached the client and
\* found events over the threshold
BridgeCall ==
    /\ Dispatched
    /\ request.name = "get_route_detailed_traces"
    /\ "route" \in DOMAIN request.arguments
    /\ "traces_analyzed" \in DOMAIN BridgeResult

\* C10: in the route-to-traces bridge an event whose trace cannot be obtained
\* adds no item to traces, every item of traces is a trace analysis (with
\* event_id, total_duration_ms and spans), and the tool returns the formatted
\* batch and not an error.
C10_BatchSucceeds ==
    BridgeCall =>
        /\ \A i \in 1..Len(BridgeResult.traces) :
               { "event_id", "total_duration_ms", "spans" } \subseteq DOMAIN BridgeResult.traces[i]
        /\ AnswerText.head = "Detailed Trace Analysis for Route"


\* the call in hand is one of the bridge's tool that reached the client and
\* was given events for the route
EventsCall ==
    /\ Dispatched
    /\ request.name = "get_route_detailed_traces"
    /\ "route" \in DOMAIN request.arguments
    /\ get_transaction_events(request.up.events) # << >>

\* the events whose own duration, "transaction.duration" as the upstream
\* reports it in milliseconds, is at least threshold_ms, in the upstream's order
RECURSIVE MeetingThreshold(_, _)
MeetingThreshold(events, threshold_ms) ==
    IF events = << >> THEN << >>
    ELSE (IF OrZero(Get(Head(events), "transaction.duration", 0)) >= threshold_ms
          THEN << Head(events) >> ELSE << >>)
         \o MeetingThreshold(Tail(events), threshold_ms)

\* C11: get_route_detailed_traces traces, in the upstream's order, the first
\* "limit" events among those whose own duration in milliseconds is at least
\* threshold_ms: no event below the threshold is traced and there are never
\* more than "limit" traces.
C11_TracesFirstSlowEvents ==
    EventsCall =>
        LET threshold_ms == Get(request.arguments, "threshold_ms", 2000000)
            limit        == Get(request.arguments, "limit", 5)
            meeting      == MeetingThreshold(get_transaction_events(request.up.events),
                                             threshold_ms)
        IN  /\ BridgeResult.traces = CollectTraces(Take(meeting, limit), request.up.event_of)
            /\ Len(BridgeResult.traces) <= limit


---------------------------------------------------------------------------
(* Further claims about get_transaction_trace, stated on TraceSpec *)

\* get_transaction_trace was called and its outcome is in "trace"
TraceCalled == trace # NotCalled

\* a lookup that failed or was answered with an empty record
YieldsNothing(lookup) == ~lookup.ok \/ DOMAIN lookup.json = {}

\* C12: when neither the organization-level nor the project-level lookup
\* locates the event (each fails or is answered with nothing),
\* get_transaction_trace returns the "event not found" result and does not raise.
C12_NotFoundReturned ==
    (/\ TraceCalled
     /\ YieldsNothing(upstream_event.org)
     /\ YieldsNothing(upstream_event.proj))
        => trace = Ret([error |-> "Event not found"])

\* the spans the event is expected to give: the payload of its first entry of
\* type "spans"; without such an entry, its top-level "spans" field; else none
HasSpansEntry ==
    \E i \in 1..Len(Get(GivenEvent, "entries", << >>)) :
        Get(GivenEvent.entries[i], "type", "None") = "spans"

ExpectedSpans ==
    IF HasSpansEntry THEN GivenSpans ELSE Get(GivenEvent, "spans", << >>)

\* C13: the spans analysed are those of the first entry of type "spans"; an
\* event without such an entry that carries a top-level "spans" field has the
\* spans of that field analysed; only an event with neither has no spans.
C13_SpansExtracted ==
    Traced => /\ trace.ret.spans_count = Len(ExpectedSpans)
              /\ trace.ret.spans = TopSpans(AnalyzedSpans(ExpectedSpans))

\* the duration in the event's trace context, 0 when it has none
ContextDuration ==
    Get(Get(Get(GivenEvent, "contexts", EmptyDict), "trace", EmptyDict), "duration", 0)

\* C14: total_duration_ms is (endTimestamp - startTimestamp) x 1000 when the
\* event has both timestamps; otherwise it is derived from the duration of the
\* event's trace context (as it stands, or x 1000 when in seconds); it is 0
\* only when the event has neither.
C14_TotalDurationSources ==
    Traced =>
        LET start_ts == Get(GivenEvent, "startTimestamp", 0)
            end_ts   == Get(GivenEvent, "endTimestamp", 0)
            total    == trace.ret.total_duration_ms
        IN  IF start_ts # 0 /\ end_ts # 0 THEN total = end_ts - start_ts
            ELSE IF ContextDuration # 0
                 THEN total \in { ContextDuration, ContextDuration * 1000 }
                 ELSE total = 0

\* C15: every span of the result has duration_ms >= 0, also when the span ends
\* before it starts, and a span without start or end has duration_ms 0.
C15_SpanDurationsNonNegative ==
    Traced =>
        \A i \in 1..Len(trace.ret.spans) :
            LET span == GivenSpans[trace.ret.spans[i].data.span_no]
            IN  /\ trace.ret.spans[i].duration_ms >= 0
                /\ (Get(span, "start_timestamp", 0) = 0 \/ Get(span, "timestamp", 0) = 0)
                       => trace.ret.spans[i].duration_ms = 0


\* what the bridge's tool returns for the call in hand when the events query
\* succeeds and finds no event
ZeroEventsResponse ==
    Caught(route_detailed_traces_tool(request.arguments,
                                      [request.up EXCEPT !.events = Answered([data |-> << >>])]))

\* C17: a transport failure of an upstream fetch is surfaced in the call's
\* response as an error about the failed fetch and never swallowed: a failed
\* transactions query is, and a failed events query of the bridge is not
\* answered like a successful query that found no event.
C17_TransportFailureSurfaced ==
    /\ (/\ Dispatched
        /\ request.name \in AggregatorTools
        /\ request.name = "analyze_route_performance" => "route" \in DOMAIN request.arguments
        /\ ~request.up.transactions.ok)
           => AnswerText = ErrorText("Failed to fetch transactions")
    /\ (/\ Dispatched
        /\ request.name = "get_route_detailed_traces"
        /\ "route" \in DOMAIN request.arguments
        /\ ~request.up.events.ok)
           => response # ZeroEventsResponse

---------------------------------------------------------------------------
(* Claims about startup and the shared client, stated on Spec *)

\* C16: a missing token is fatal at startup: without SENTRY_TOKEN the process
\* does not start serving and never accepts and answers a tool call.
C16_NoTokenNeverServes ==
    ~env_token => /\ ~serving
                  /\ ~InHand

\* a step that takes a tool call
CallStep == request = NotCalled /\ request' # NotCalled

\* C18: over any sequence of tool calls at most one client is ever
\* constructed: it is constructed by the first call that finds the handle
\* unset (never at startup), the handle then keeps that client for every later
\* call, and a construction that fails leaves the handle unset, so that the
\* next call attempts it again.
C18_OneLazyClient ==
    [][/\ constructed' <= 1
       /\ (sentry_client' = "None") <=> (constructed' = 0)
       /\ sentry_client # "None" => /\ sentry_client' = sentry_client
                                    /\ constructed' = constructed
       /\ constructed' # constructed => CallStep /\ sentry_client = "None"
       /\ (CallStep /\ sentry_client = "None") =>
              IF env_token
              THEN constructed' = 1 /\ sentry_client' = "client"
              ELSE /\ sentry_client' = "None"
                   /\ response' = Ret(<< TextContent(ErrorText("SENTRY_TOKEN is required")) >>)
      ]_vars

\* a call answered by the one client constructed so far
C18_Witness ==
    /\ InHand
    /\ sentry_client = "client"
    /\ constructed = 1
    /\ AnswerText.head # "Error: "


---------------------------------------------------------------------------
(* The claim about the requests of a call, stated on Spec *)

\* the most GET requests the tool of the call in hand may send
GetsBound ==
    CASE request.name \in AggregatorTools \cup { "get_recent_issues" } -> 1
      [] request.name = "analyze_transaction_trace" -> 2
      [] request.name = "get_issue_details" -> 4
      [] request.name = "get_route_detailed_traces" ->
             1 + 2 * Get(request.arguments, "limit", 5)
      [] OTHER -> 0

EventsReturned == Len(get_transaction_events(request.up.events))

\* the events slow_events[:limit] can hold: limit of them, and for a negative
\* limit all but the last -limit of those returned
SliceBound ==
    LET limit == Get(request.arguments, "limit", 5)
    IN  IF limit >= 0 THEN limit
        ELSE IF EventsReturned + limit > 0 THEN EventsReturned + limit ELSE 0

---------------------------------------------------------------------------
(* The claim about the overview of all routes, stated on Spec *)

\* the rows the transactions query of the call in hand returned
FetchedRows == get_transactions(request.up.transactions).ret

\* the call in hand is one of "tool" that reached the client and was given rows
RowsCall(tool) ==
    /\ Dispatched
    /\ request.name = tool
    /\ request.up.transactions.ok
    /\ FetchedRows # << >>

\* C20: get_performance_overview lists every distinct route of the fetched rows
\* (as many routes as total_routes), also a route whose p95 is 0 or missing, and
\* analyze_route_performance finds every route that is in the fetched rows.
C20_OverviewListsAllRoutes ==
    /\ RowsCall("get_performance_overview") =>
           /\ Len(AnswerText.routes) = AnswerText.total_routes
           /\ \A i \in 1..Len(FetchedRows) :
                  \E j \in 1..Len(AnswerText.routes) :
                      AnswerText.routes[j].route = RouteOf(FetchedRows[i])
    /\ (/\ RowsCall("analyze_route_performance")
        /\ \E i \in 1..Len(FetchedRows) :
               Get(request.arguments, "route", "") = RouteOf(FetchedRows[i]))
           => AnswerText.head = "Route Performance Analysis"


---------------------------------------------------------------------------
(* The claim about get_issue_details, stated on Spec *)

\* the call in hand is one of get_issue_details whose organization-level
\* request for the issue succeeded
IssueFetchedCall ==
    /\ Dispatched
    /\ request.name = "get_issue_details"
    /\ "issue_id" \in DOMAIN request.arguments
    /\ request.up.issue_org.ok

\* what get_issue_details gave to the call in hand
IssueResult == get_issue_details(request.up, request.arguments.issue_id)

\* C21: once the organization-level issue record has been fetched,
\* get_issue_details returns that record whatever happens while the latest
\* event is looked up: a failing latest-event request only leaves
\* latestEventDetails absent; the call never raises and never discards the record.
C21_IssueRecordKept ==
    IssueFetchedCall =>
        /\ ~Raised(IssueResult)
        /\ [k \in DOMAIN IssueResult.ret \ { "latestEventDetails" } |-> IssueResult.ret[k]]
               = request.up.issue_org.json
        /\ AnswerText.head = "Issue Details"


===========================================================================
